---- MODULE Spec2Model ----
(***************************************************************************)
(* keymerge: the structural merge engine of merge.go (UntypedMerger).      *)
(*                                                                         *)
(* Document values are tagged tuples:                                      *)
(*   <<"nil">>                 Go nil (YAML null / absent)                 *)
(*   <<"s", kind, text>>       a scalar of Go type kind ("int", "str",     *)
(*                             "bool"); text is what fmt prints for it, a  *)
(*                             sequence of space-separated words           *)
(*   <<"map", f>>              map[string]any, f a function on its keys    *)
(*   <<"list", s>>             []any                                       *)
(* A merge step returns [val, err, path, src]: the Go result, the Go error *)
(* (or a panic), and m.path as the step leaves it; src is a ghost field    *)
(* naming, for a keyed list result, where each item came from.             *)
(***************************************************************************)
EXTENDS Integers, Sequences, FiniteSets, TLC

VARIABLES
    opts,      \* m.opts: the Options the merger was built with
    metadata,  \* m.metadata: the typed Merger's root metadata, or NoMeta
    mpath,     \* m.path
    mindex,    \* m.index
    docs,      \* the documents of the MergeUnstructured call
    pc,        \* "loop": in the loop over docs; "done": returned
    n,         \* the loop variable i: the documents folded so far
    result,    \* the local result
    err,       \* the error returned (NoErr while running)
    out,       \* the value returned
    base,      \* ghost: result as the last fold step found it
    origin,    \* ghost: the origin of the items of a keyed list result
    other      \* a second MergeUnstructured call and the merger it runs on, or << >>

vars == <<opts, metadata, mpath, mindex, docs, pc, n, result, err, out, base, origin, other>>

----------------------------------------------------------------------------
(* Values *)

Nil == <<"nil">>
IntV(w) == <<"s", "int", <<w>>>>
StrV(ws) == <<"s", "str", ws>>
BoolV(w) == <<"s", "bool", <<w>>>>
True == BoolV("true")
False == BoolV("false")
Map(f) == <<"map", f>>
List(s) == <<"list", s>>

IsNil(v) == v[1] = "nil"
IsMap(v) == v[1] = "map"
IsList(v) == v[1] = "list"
IsScalar(v) == v[1] = "s"
Fields(v) == DOMAIN v[2]
Has(v, k) == IsMap(v) /\ k \in DOMAIN v[2]
Get(v, k) == v[2][k]

(* result[k] = v on a Go map *)
MapSet(f, k, v) == [x \in (DOMAIN f) \cup {k} |-> IF x = k THEN v ELSE f[x]]
(* delete(result, k) *)
MapDelete(f, k) == [x \in (DOMAIN f) \ {k} |-> f[x]]

----------------------------------------------------------------------------
(* Errors.  NoErr is Go's nil error. *)

NoErr == <<"ok">>
DuplicatePrimaryKeyError(key, positions, p, doc) == <<"dup", key, positions, p, doc>>
NonComparablePrimaryKeyError(key, position, p, doc) == <<"noncomp", key, <<position>>, p, doc>>
(* a Go runtime panic: it unwinds the whole call *)
Panic(why) == <<"panic", why>>
IsPanic(e) == e[1] = "panic"

Res(v, p) == [val |-> v, err |-> NoErr, path |-> p, src |-> << >>]
Fail(e, p) == [val |-> Nil, err |-> e, path |-> p, src |-> << >>]

----------------------------------------------------------------------------
(* Metadata of the typed Merger: <<"meta", primaryKeys, scalarListMode,    *)
(* objectListMode, children>>; a mode of "" is a nil override.             *)

NoMeta == <<"nometa">>
Meta(pks, smode, omode, children) == <<"meta", pks, smode, omode, children>>
HasMeta(md) == md[1] = "meta"
primaryKeys(md) == md[2]
scalarListMode(md) == md[3]
objectListMode(md) == md[4]
children(md) == md[5]

----------------------------------------------------------------------------
(* The path tracker *)

MaxIndex == 9

(* strconv.Itoa *)
Itoa(i) == ToString(i)

isNumeric(s) == s \in {Itoa(i) : i \in 0..MaxIndex}

push(mm, p, name) ==
    IF ~HasMeta(mm.metadata)
    THEN Append(p, <<name, NoMeta>>)
    ELSE LET parentMeta == IF Len(p) = 0 THEN mm.metadata ELSE p[Len(p)][2]
             segmentMeta ==
                 IF isNumeric(name) THEN parentMeta
                 ELSE IF HasMeta(parentMeta) /\ name \in DOMAIN children(parentMeta)
                      THEN children(parentMeta)[name]
                      ELSE NoMeta
         IN Append(p, <<name, segmentMeta>>)

(* pop panics on an empty path: CanPop is its guard *)
CanPop(p) == Len(p) > 0
pop(p) == SubSeq(p, 1, Len(p) - 1)

pathNames(p) == [i \in 1..Len(p) |-> p[i][1]]

getCurrentMetadata(p) == IF Len(p) = 0 THEN NoMeta ELSE p[Len(p)][2]

----------------------------------------------------------------------------
(* Formatting: fmt.Sprint / fmt.Sprintf("%v") as the words it prints.  The *)
(* words of a list are those of its items, in order, inside brackets; fmt  *)
(* prints the entries of a map sorted by key.                              *)

RECURSIVE Sprint(_), SprintSeq(_, _), SprintMap(_, _)

(* the field names of the model, in fmt's (sorted) order *)
FieldSeq == <<"_delete", "a", "b", "id", "items", "name", "region">>

SprintSeq(s, i) ==
    IF i > Len(s) THEN << >> ELSE Sprint(s[i]) \o SprintSeq(s, i + 1)

SprintMap(f, i) ==
    IF i > Len(FieldSeq) THEN << >>
    ELSE IF FieldSeq[i] \in DOMAIN f
         THEN <<FieldSeq[i], ":">> \o Sprint(f[FieldSeq[i]]) \o SprintMap(f, i + 1)
         ELSE SprintMap(f, i + 1)

Sprint(v) ==
    CASE IsNil(v) -> <<"<nil>">>
      [] IsScalar(v) -> v[3]
      [] IsMap(v) -> <<"map[">> \o SprintMap(v[2], 1) \o <<"]">>
      [] IsList(v) -> <<"[">> \o SprintSeq(v[2], 1) \o <<"]">>

----------------------------------------------------------------------------
(* Primary keys.  A key is NoKey (Go nil), the key field's value, or a     *)
(* *compositeKey <<"ck", values>>.                                         *)

NoKey == <<"nokey">>
compositeKey(values) == <<"ck", values>>
IsComposite(key) == key[1] = "ck"

(* the value of the first name of names[i..] that is a non-nil field of mp *)
RECURSIVE FirstPresent(_, _, _)
FirstPresent(mp, names, i) ==
    IF i > Len(names) THEN NoKey
    ELSE IF Has(mp, names[i]) /\ ~IsNil(Get(mp, names[i]))
         THEN Get(mp, names[i])
         ELSE FirstPresent(mp, names, i + 1)

(* variant of getPrimaryKey that tries the names of PrimaryKeyNames from   *)
(* the last to the first                                                   *)
getPrimaryKey_LastName(mm, p, item) ==
    IF ~IsMap(item) THEN NoKey
    ELSE LET meta == getCurrentMetadata(p) IN
         IF HasMeta(meta) /\ Len(primaryKeys(meta)) > 0
         THEN LET pks == primaryKeys(meta) IN
              IF Len(pks) = 1
              THEN IF ~Has(item, pks[1]) \/ IsNil(Get(item, pks[1]))
                   THEN NoKey
                   ELSE Get(item, pks[1])
              ELSE IF \E i \in 1..Len(pks) : ~Has(item, pks[i]) \/ IsNil(Get(item, pks[i]))
                   THEN NoKey
                   ELSE compositeKey([i \in 1..Len(pks) |-> Get(item, pks[i])])
         ELSE FirstPresent(item, [k \in 1..Len(mm.opts.PrimaryKeyNames) |->
                                    mm.opts.PrimaryKeyNames[Len(mm.opts.PrimaryKeyNames) + 1 - k]], 1)

getPrimaryKey(mm, p, item) ==
    IF ~IsMap(item) THEN NoKey
    ELSE LET meta == getCurrentMetadata(p) IN
         IF HasMeta(meta) /\ Len(primaryKeys(meta)) > 0
         THEN LET pks == primaryKeys(meta) IN
              IF Len(pks) = 1
              THEN IF ~Has(item, pks[1]) \/ IsNil(Get(item, pks[1]))
                   THEN NoKey
                   ELSE Get(item, pks[1])
              ELSE IF \E i \in 1..Len(pks) : ~Has(item, pks[i]) \/ IsNil(Get(item, pks[i]))
                   THEN NoKey
                   ELSE compositeKey([i \in 1..Len(pks) |-> Get(item, pks[i])])
         ELSE FirstPresent(item, mm.opts.PrimaryKeyNames, 1)

(* isComparable: maps and slices are not comparable in Go *)
isComparable(value) == ~IsMap(value) /\ ~IsList(value)

isKeyComparable(key) ==
    IF IsComposite(key)
    THEN \A i \in 1..Len(key[2]) : isComparable(key[2][i])
    ELSE isComparable(key)

keyString(key) == IF IsComposite(key) THEN Sprint(List(key[2])) ELSE Sprint(key)

(* a composite key is indexed under the Go string fmt.Sprint prints *)
toMapKey(key) == IF IsComposite(key) THEN StrV(Sprint(List(key[2]))) ELSE key

(* indexing a Go map by an interface holding a map or a slice panics *)
Hashable(mapKey) == isComparable(mapKey)

(* variant of isMarkedForDeletion that takes any marker but false for a    *)
(* deletion request                                                        *)
isMarkedForDeletion_Truthy(mm, value) ==
    IF mm.opts.DeleteMarkerKey = "" THEN FALSE
    ELSE IF ~IsMap(value) THEN FALSE
    ELSE IF ~Has(value, mm.opts.DeleteMarkerKey) THEN FALSE
    ELSE Get(value, mm.opts.DeleteMarkerKey) # False

isMarkedForDeletion(mm, value) ==
    IF mm.opts.DeleteMarkerKey = "" THEN FALSE
    ELSE IF ~IsMap(value) THEN FALSE
    ELSE IF ~Has(value, mm.opts.DeleteMarkerKey) THEN FALSE
    ELSE LET marker == Get(value, mm.opts.DeleteMarkerKey) IN
         IF IsScalar(marker) /\ marker[2] = "bool" THEN marker = True ELSE FALSE

----------------------------------------------------------------------------
(* The merge.  mm is the merger: [opts, metadata, index, order]; order is  *)
(* the order in which this fold step's range loops visit map entries (Go   *)
(* leaves it unspecified).  p is m.path on entry.                          *)

RECURSIVE mergeValues(_, _, _, _), OverlayEntries(_, _, _, _, _)
RECURSIVE BaseItems(_, _, _, _, _), OverlayItems(_, _, _, _, _)
RECURSIVE OverlayDuplicates(_, _, _, _, _)
RECURSIVE deduplicateItems(_, _, _, _), stripDeleteMarker(_, _)

(* the keys of map f in iteration order ord *)
RangeKeys(f, ord) == SelectSeq(ord, LAMBDA k : k \in DOMAIN f)

(* mergeMaps, after the nested mergeValues of entry k returned r *)
EntryMerged(mm, res, overlay, keys, r) ==
    IF r.err # NoErr THEN Fail(r.err, r.path)
    ELSE IF ~CanPop(r.path) THEN Fail(Panic("pop"), r.path)
    ELSE OverlayEntries(mm, MapSet(res, Head(keys), r.val), overlay, Tail(keys), pop(r.path))

(* mergeMaps, the body of the loop for entry k = Head(keys), after push(k) *)
Entry(mm, res, overlay, keys, p1) ==
    IF isMarkedForDeletion(mm, overlay[Head(keys)])
    THEN OverlayEntries(mm, MapDelete(res, Head(keys)), overlay, Tail(keys), p1)
    ELSE IF Head(keys) \in DOMAIN res
         THEN EntryMerged(mm, res, overlay, keys,
                          mergeValues(mm, res[Head(keys)], overlay[Head(keys)], p1))
         ELSE OverlayEntries(mm, MapSet(res, Head(keys), overlay[Head(keys)]), overlay,
                             Tail(keys), pop(p1))

(* the loop of mergeMaps over the overlay's entries, keys still to visit *)
OverlayEntries(mm, res, overlay, keys, p) ==
    IF keys = << >> THEN Res(Map(res), p)
    ELSE Entry(mm, res, overlay, keys, push(mm, p, Head(keys)))

mergeMaps(mm, b, overlay, p) ==
    OverlayEntries(mm, b, overlay, RangeKeys(overlay, mm.order), p)

----------------------------------------------------------------------------
(* deduplicateList *)

deduplicateItems(items, i, res, seen) ==
    IF i > Len(items) THEN res
    ELSE IF IsMap(items[i]) \/ IsList(items[i])
         THEN deduplicateItems(items, i + 1, Append(res, items[i]), seen)
         ELSE IF items[i] \in seen
              THEN deduplicateItems(items, i + 1, res, seen)
              ELSE deduplicateItems(items, i + 1, Append(res, items[i]), seen \cup {items[i]})

(* variant of deduplicateList that looks for duplicates in the overlay only *)
deduplicateList_Overlay(b, overlay) == b \o deduplicateItems(overlay, 1, << >>, {})

deduplicateList(b, overlay) == deduplicateItems(b \o overlay, 1, << >>, {})

----------------------------------------------------------------------------
(* mergeSlices.  st is the loop state [result, index, src, path, err]:     *)
(* result with Nil holes, resultIndex as a function from map keys to       *)
(* 0-based positions, and the ghost src: where each item of result came    *)
(* from (<<"b", i>>: base[i], <<"o", j>>: overlay[j]).                     *)

ListState(res, idx, src, p) == [result |-> res, index |-> idx, src |-> src, path |-> p, err |-> NoErr]
ListFail(e, p) == [result |-> << >>, index |-> << >>, src |-> << >>, path |-> p, err |-> e]

IndexPut(idx, k, pos) == [x \in (DOMAIN idx) \cup {k} |-> IF x = k THEN pos ELSE idx[x]]
IndexDelete(idx, k) == [x \in (DOMAIN idx) \ {k} |-> idx[x]]

(* result[pos] = v, pos 0-based *)
SetAt(res, pos, v) == [res EXCEPT ![pos + 1] = v]

scalarMode(mm, p) ==
    IF HasMeta(getCurrentMetadata(p)) /\ scalarListMode(getCurrentMetadata(p)) # ""
    THEN scalarListMode(getCurrentMetadata(p))
    ELSE mm.opts.ScalarListMode

objectMode(mm, p) ==
    IF HasMeta(getCurrentMetadata(p)) /\ objectListMode(getCurrentMetadata(p)) # ""
    THEN objectListMode(getCurrentMetadata(p))
    ELSE mm.opts.ObjectListMode

(* key discovery: some overlay item yields a key *)
hasKeys(mm, overlay, p) ==
    \E j \in 1..Len(overlay) : getPrimaryKey(mm, p, overlay[j]) # NoKey

(* after merged, err := mergeValues(result[pos], item): pop, check err,    *)
(* result[pos] = merged                                                    *)
Merged(st, pos, r) ==
    IF IsPanic(r.err) THEN ListFail(r.err, r.path)
    ELSE IF ~CanPop(r.path) THEN ListFail(Panic("pop"), r.path)
    ELSE IF r.err # NoErr THEN ListFail(r.err, pop(r.path))
    ELSE ListState(SetAt(st.result, pos, r.val), st.index, st.src, pop(r.path))

(* variant of MergeInto that puts the item in place of result[pos] *)
MergeInto_Replace(mm, st, pos, item, p1) ==
    ListState(SetAt(st.result, pos, item), st.index, st.src, pop(p1))

(* merge item into result[pos]: pop, push(pos), mergeValues, pop *)
MergeInto(mm, st, pos, item, p1) ==
    Merged(st, pos, mergeValues(mm, st.result[pos + 1], item, push(mm, pop(p1), Itoa(pos))))

(* variant of AppendItem that puts the item in front *)
AppendItem_Front(st, item, from, p) ==
    ListState(<<item>> \o st.result, st.index, <<from>> \o st.src, p)

(* append item *)
AppendItem(st, item, from, p) ==
    ListState(Append(st.result, item), st.index, Append(st.src, from), p)

(* append item and index it *)
AppendIndexed(st, mapKey, item, from, p) ==
    ListState(Append(st.result, item), IndexPut(st.index, mapKey, Len(st.result)),
              Append(st.src, from), p)

(* the body of the first loop for base[i] with a comparable key *)
BaseKeyed(mm, mode, st, i, item, key, mapKey, p1) ==
    IF mapKey \notin DOMAIN st.index
    THEN AppendIndexed(st, mapKey, item, <<"b", i - 1>>, pop(p1))
    ELSE IF mode = "unique"
         THEN ListFail(DuplicatePrimaryKeyError(keyString(key), <<st.index[mapKey], i - 1>>,
                                                pathNames(p1), mm.index), pop(p1))
         ELSE MergeInto(mm, st, st.index[mapKey], item, p1)

(* the body of the first loop for base[i], after push(i) *)
BaseItem(mm, mode, st, i, item, key, p1) ==
    IF key = NoKey THEN AppendItem(st, item, <<"b", i - 1>>, pop(p1))
    ELSE IF ~isKeyComparable(key)
         THEN ListFail(NonComparablePrimaryKeyError(keyString(key), i - 1, pathNames(p1), mm.index),
                       pop(p1))
         ELSE BaseKeyed(mm, mode, st, i, item, key, toMapKey(key), p1)

(* the first loop: index the base items base[i..]; st is the state so far *)
BaseItems(mm, mode, b, i, st) ==
    IF st.err # NoErr \/ i > Len(b) THEN st
    ELSE BaseItems(mm, mode, b, i + 1,
                   BaseItem(mm, mode, st, i, b[i],
                            getPrimaryKey(mm, push(mm, st.path, Itoa(i - 1)), b[i]),
                            push(mm, st.path, Itoa(i - 1))))

(* the unique-mode scan for overlay[i] with a comparable key *)
ScanKeyed(mm, overlay, i, overlayKeys, key, mapKey, p1) ==
    IF mapKey \in DOMAIN overlayKeys
    THEN [err |-> DuplicatePrimaryKeyError(keyString(key), <<overlayKeys[mapKey], i - 1>>,
                                           pathNames(p1), mm.index),
          path |-> pop(p1)]
    ELSE OverlayDuplicates(mm, overlay, i + 1, IndexPut(overlayKeys, mapKey, i - 1), pop(p1))

ScanItem(mm, overlay, i, overlayKeys, key, p1) ==
    IF isMarkedForDeletion(mm, overlay[i]) \/ key = NoKey
    THEN OverlayDuplicates(mm, overlay, i + 1, overlayKeys, pop(p1))
    ELSE IF ~isKeyComparable(key)
         THEN [err |-> NonComparablePrimaryKeyError(keyString(key), i - 1, pathNames(p1), mm.index),
               path |-> pop(p1)]
         ELSE ScanKeyed(mm, overlay, i, overlayKeys, key, toMapKey(key), p1)

(* the unique-mode scan of the overlay items overlay[i..] for duplicates;  *)
(* overlayKeys maps a map key to the 0-based position that introduced it   *)
OverlayDuplicates(mm, overlay, i, overlayKeys, p) ==
    IF i > Len(overlay) THEN [err |-> NoErr, path |-> p]
    ELSE ScanItem(mm, overlay, i, overlayKeys,
                  getPrimaryKey(mm, push(mm, p, Itoa(i - 1)), overlay[i]),
                  push(mm, p, Itoa(i - 1)))

(* an overlay item marked for deletion: tombstone its match, unindex it *)
DeleteKeyed(st, mapKey, p1) ==
    IF ~Hashable(mapKey) THEN ListFail(Panic("hash of unhashable type"), p1)
    ELSE IF mapKey \in DOMAIN st.index
         THEN ListState(SetAt(st.result, st.index[mapKey], Nil),
                        IndexDelete(st.index, mapKey), st.src, pop(p1))
         ELSE ListState(st.result, st.index, st.src, pop(p1))

DeleteItem(st, key, p1) ==
    IF key = NoKey THEN ListState(st.result, st.index, st.src, pop(p1))
    ELSE DeleteKeyed(st, toMapKey(key), p1)

(* variant of MergeOrAppend that appends the item even when its key is    *)
(* indexed                                                                 *)
MergeOrAppend_Append(mm, st, mapKey, item, from, p1) ==
    IF ~Hashable(mapKey) THEN ListFail(Panic("hash of unhashable type"), p1)
    ELSE AppendIndexed(st, mapKey, item, from, pop(p1))

(* an overlay item with a key: merge it into its match or append it *)
MergeOrAppend(mm, st, mapKey, item, from, p1) ==
    IF ~Hashable(mapKey) THEN ListFail(Panic("hash of unhashable type"), p1)
    ELSE IF mapKey \in DOMAIN st.index
         THEN MergeInto(mm, st, st.index[mapKey], item, p1)
         ELSE AppendIndexed(st, mapKey, item, from, pop(p1))

(* the body of the last loop for overlay[i], after push(i) *)
OverlayItem(mm, mode, st, i, item, key, p1) ==
    IF isMarkedForDeletion(mm, item) THEN DeleteItem(st, key, p1)
    ELSE IF key = NoKey THEN AppendItem(st, item, <<"o", i - 1>>, pop(p1))
    ELSE IF mode # "unique" /\ ~isKeyComparable(key)
         THEN ListFail(NonComparablePrimaryKeyError(keyString(key), i - 1, pathNames(p1), mm.index),
                       pop(p1))
         ELSE MergeOrAppend(mm, st, toMapKey(key), item, <<"o", i - 1>>, p1)

(* the last loop: merge the overlay items overlay[i..]; st is the state so far *)
OverlayItems(mm, mode, overlay, i, st) ==
    IF st.err # NoErr \/ i > Len(overlay) THEN st
    ELSE OverlayItems(mm, mode, overlay, i + 1,
                      OverlayItem(mm, mode, st, i, overlay[i],
                                  getPrimaryKey(mm, push(mm, st.path, Itoa(i - 1)), overlay[i]),
                                  push(mm, st.path, Itoa(i - 1))))

(* the items of s that are not nil, in order *)
FilterNil(s) == SelectSeq(s, LAMBDA v : ~IsNil(v))

(* the places (1-based) of the items FilterNil keeps *)
Kept(res) == SelectSeq([k \in 1..Len(res) |-> k], LAMBDA k : ~IsNil(res[k]))

(* the src entries of the items FilterNil keeps *)
FilterSrc(res, src) == [k \in 1..Len(Kept(res)) |-> src[Kept(res)[k]]]

Filtering(mm, mode) == mm.opts.DeleteMarkerKey # "" \/ mode = "consolidate"

(* the end of mergeSlices: filter out nil items *)
Filtered(mm, mode, st) ==
    IF st.err # NoErr THEN Fail(st.err, st.path)
    ELSE IF Filtering(mm, mode)
         THEN [val |-> List(FilterNil(st.result)), err |-> NoErr, path |-> st.path,
               src |-> FilterSrc(st.result, st.src)]
         ELSE [val |-> List(st.result), err |-> NoErr, path |-> st.path, src |-> st.src]

(* mergeSlices after the unique-mode scan of the overlay returned dup *)
Scanned(mm, mode, overlay, st, dup) ==
    IF dup.err # NoErr THEN Fail(dup.err, dup.path)
    ELSE Filtered(mm, mode,
                  OverlayItems(mm, mode, overlay, 1, ListState(st.result, st.index, st.src, dup.path)))

(* mergeSlices after the first loop left st *)
Indexed(mm, mode, overlay, st) ==
    IF st.err # NoErr THEN Fail(st.err, st.path)
    ELSE Scanned(mm, mode, overlay, st,
                 IF mode = "unique"
                 THEN OverlayDuplicates(mm, overlay, 1, << >>, st.path)
                 ELSE [err |-> NoErr, path |-> st.path])

mergeKeyed(mm, b, overlay, p) ==
    Indexed(mm, objectMode(mm, p), overlay,
            BaseItems(mm, objectMode(mm, p), b, 1, ListState(<< >>, << >>, << >>, p)))

(* variant of mergeKeyless that concatenates whatever the mode *)
mergeKeyless_Concat(mm, b, overlay, p) == Res(List(b \o overlay), p)

mergeKeyless(mm, b, overlay, p) ==
    IF scalarMode(mm, p) = "replace" THEN Res(List(overlay), p)
    ELSE IF scalarMode(mm, p) = "dedup" THEN Res(List(deduplicateList(b, overlay)), p)
    ELSE Res(List(b \o overlay), p)

(* variant of mergeSlices without the early return for an empty overlay *)
mergeSlices_NoEmpty(mm, b, overlay, p) ==
    IF ~hasKeys(mm, overlay, p) THEN mergeKeyless(mm, b, overlay, p)
    ELSE mergeKeyed(mm, b, overlay, p)

mergeSlices(mm, b, overlay, p) ==
    IF Len(overlay) = 0 THEN Res(List(b), p)
    ELSE IF ~hasKeys(mm, overlay, p) THEN mergeKeyless(mm, b, overlay, p)
    ELSE mergeKeyed(mm, b, overlay, p)

(* variant of mergeValues in which a nil overlay replaces the base *)
mergeValues_NilReplaces(mm, b, overlay, p) ==
    IF IsNil(b) THEN Res(overlay, p)
    ELSE IF IsMap(b) /\ IsMap(overlay) THEN mergeMaps(mm, b[2], overlay[2], p)
    ELSE IF IsList(b) /\ IsList(overlay) THEN mergeSlices(mm, b[2], overlay[2], p)
    ELSE Res(overlay, p)

(* variant of mergeValues that keeps the base when the shapes differ *)
mergeValues_KeepBase(mm, b, overlay, p) ==
    IF IsNil(overlay) THEN Res(b, p)
    ELSE IF IsNil(b) THEN Res(overlay, p)
    ELSE IF IsMap(b) /\ IsMap(overlay) THEN mergeMaps(mm, b[2], overlay[2], p)
    ELSE IF IsList(b) /\ IsList(overlay) THEN mergeSlices(mm, b[2], overlay[2], p)
    ELSE Res(b, p)

mergeValues(mm, b, overlay, p) ==
    IF IsNil(overlay) THEN Res(b, p)
    ELSE IF IsNil(b) THEN Res(overlay, p)
    ELSE IF IsMap(b) /\ IsMap(overlay) THEN mergeMaps(mm, b[2], overlay[2], p)
    ELSE IF IsList(b) /\ IsList(overlay) THEN mergeSlices(mm, b[2], overlay[2], p)
    ELSE Res(overlay, p)

----------------------------------------------------------------------------
(* stripDeleteMarker *)

(* variant of stripDeleteMarker that strips the marker of the value alone *)
stripDeleteMarker_Shallow(mm, value) ==
    IF mm.opts.DeleteMarkerKey = "" THEN value
    ELSE IF IsMap(value) THEN Map(MapDelete(value[2], mm.opts.DeleteMarkerKey))
    ELSE value

stripDeleteMarker(mm, value) ==
    IF mm.opts.DeleteMarkerKey = "" THEN value
    ELSE IF IsMap(value)
         THEN Map([k \in (DOMAIN value[2]) \ {mm.opts.DeleteMarkerKey} |->
                      stripDeleteMarker(mm, value[2][k])])
         ELSE IF IsList(value)
              THEN List([i \in 1..Len(value[2]) |-> stripDeleteMarker(mm, value[2][i])])
              ELSE value

----------------------------------------------------------------------------
(* MergeUnstructured as a state machine: one step per loop iteration, one  *)
(* for the final strip and return.                                         *)

Reverse(s) == [k \in 1..Len(s) |-> s[Len(s) + 1 - k]]

(* the iteration orders of a range loop the model draws from *)
Orders == {FieldSeq, Reverse(FieldSeq)}

Merger(ix, ord) == [opts |-> opts, metadata |-> metadata, index |-> ix, order |-> ord]

(* the loop body after result, err = mergeValues(result, doc) returned r *)
Folded(r) ==
    /\ mpath' = r.path
    /\ origin' = r.src
    /\ IF r.err # NoErr
       THEN /\ pc' = "done"
            /\ err' = r.err
            /\ result' = Nil
            /\ n' = n
       ELSE /\ pc' = "loop"
            /\ err' = NoErr
            /\ result' = r.val
            /\ n' = n + 1

(* reset(i); result, err = mergeValues(result, doc); if err != nil return nil, err *)
Fold ==
    /\ pc = "loop"
    /\ n < Len(docs)
    /\ mindex' = n
    /\ base' = result
    /\ \E ord \in Orders : Folded(mergeValues(Merger(n, ord), result, docs[n + 1], << >>))
    /\ UNCHANGED <<opts, metadata, docs, out, other>>

(* variant of Return that returns the result without stripDeleteMarker *)
Return_NoStrip ==
    /\ pc = "loop"
    /\ n = Len(docs)
    /\ pc' = "done"
    /\ out' = result
    /\ UNCHANGED <<opts, metadata, mpath, mindex, docs, n, result, err, base, origin, other>>

(* result = stripDeleteMarker(result); return result, nil *)
Return ==
    /\ pc = "loop"
    /\ n = Len(docs)
    /\ pc' = "done"
    /\ out' = stripDeleteMarker(Merger(mindex, FieldSeq), result)
    /\ UNCHANGED <<opts, metadata, mpath, mindex, docs, n, result, err, base, origin, other>>

Next == Fold \/ Return

Start(os, mds, ds) ==
    /\ opts \in os
    /\ metadata \in mds
    /\ docs \in ds
    /\ mpath = << >>
    /\ mindex = 0
    /\ pc = "loop"
    /\ n = 0
    /\ result = Nil
    /\ err = NoErr
    /\ out = Nil
    /\ base = Nil
    /\ origin = << >>
    /\ other = << >>

Options(pk, del, smode, omode) ==
    [PrimaryKeyNames |-> pk, DeleteMarkerKey |-> del, ScalarListMode |-> smode, ObjectListMode |-> omode]

----------------------------------------------------------------------------
(* Calls the specifications draw from: a call passes a base document and   *)
(* an overlay document, or one document alone.                             *)

MaxLen == 2

SeqsUpTo(S, len) == UNION {[1..k -> S] : k \in 0..len}

(* the lists of up to MaxLen items of S *)
Lists(S) == {List(s) : s \in SeqsUpTo(S, MaxLen)}

OneOrTwo(D) == {<<d>> : d \in D} \cup {<<d, e>> : d \in D, e \in D}

(* Spec: keyed lists at the document root, untyped merger, key field id *)
ListItems ==
    { Map([id |-> IntV("1"), a |-> IntV("1")]),
      Map([id |-> IntV("1"), a |-> IntV("2"), b |-> IntV("2")]),
      Map([id |-> IntV("2"), a |-> IntV("2")]),
      Map([id |-> IntV("1"), _delete |-> True]),
      Map([a |-> IntV("1")]) }

ListOptions ==
    {Options(<<"id">>, del, "concat", omode) : del \in {"", "_delete"}, omode \in {"unique", "consolidate"}}

Init == Start(ListOptions, {NoMeta}, OneOrTwo(Lists(ListItems)))

Spec == Init /\ [][Next]_vars

(* SpecOrder: the same with null items *)
OrderItems ==
    { Map([id |-> IntV("1"), a |-> IntV("1")]),
      Map([id |-> IntV("1"), a |-> IntV("2"), b |-> IntV("2")]),
      Map([id |-> IntV("2"), a |-> IntV("2")]),
      Map([id |-> IntV("1"), _delete |-> True]),
      Nil }

InitOrder == Start(ListOptions, {NoMeta}, OneOrTwo(Lists(OrderItems)))

SpecOrder == InitOrder /\ [][Next]_vars

(* SpecKeys: the same with items whose key is an object *)
KeysItems ==
    { Map([id |-> IntV("1"), a |-> IntV("1")]),
      Map([id |-> IntV("2"), a |-> IntV("2")]),
      Map([id |-> IntV("1"), _delete |-> True]),
      Map([id |-> Map([a |-> IntV("1")])]),
      Map([id |-> Map([a |-> IntV("1")]), _delete |-> True]),
      StrV(<<"x">>) }

InitKeys == Start(ListOptions, {NoMeta}, OneOrTwo(Lists(KeysItems)))

SpecKeys == InitKeys /\ [][Next]_vars

(* SpecMarker: lists and objects whose items and fields carry the marker  *)
(* with the value true, false, a string, a number, or not at all           *)
MarkerItems ==
    { Map([id |-> IntV("1"), a |-> IntV("1")]),
      Map([id |-> IntV("1"), _delete |-> True]),
      Map([id |-> IntV("1"), _delete |-> False, b |-> IntV("2")]),
      Map([id |-> IntV("1"), _delete |-> StrV(<<"true">>), b |-> IntV("2")]),
      Map([id |-> IntV("1"), _delete |-> IntV("1"), b |-> IntV("2")]) }

MarkerDocs ==
    Lists(MarkerItems)
    \cup {Map([name |-> IntV("1"), a |-> x]) : x \in MarkerItems \cup {IntV("1")}}
    \cup {Map([name |-> IntV("1")]),
          Map([a |-> Map([b |-> Map([_delete |-> True])])])}

InitMarker ==
    Start({Options(<<"id">>, "_delete", "concat", omode) : omode \in {"unique", "consolidate"}},
          {NoMeta}, OneOrTwo(MarkerDocs))

SpecMarker == InitMarker /\ [][Next]_vars

(* SpecStrip: up to MaxDocs documents that carry the marker at the root,   *)
(* in a field, in a list item and below a field that only they have        *)
MaxDocs == 3

SeqsOf(S, len) == UNION {[1..k -> S] : k \in 1..len}

StripDocs ==
    { Map([name |-> IntV("1")]),
      Map([name |-> IntV("2"), _delete |-> False]),
      Map([a |-> Map([b |-> Map([_delete |-> True])])]),
      Map([a |-> Map([_delete |-> StrV(<<"true">>), b |-> IntV("1")])]),
      Map([items |-> List(<<Map([id |-> IntV("1"), _delete |-> IntV("1")])>>)]),
      Map([items |-> List(<<Map([id |-> IntV("1"), a |-> Map([_delete |-> True])])>>)]),
      List(<<Map([id |-> IntV("1"), _delete |-> True])>>) }

InitStrip ==
    Start({Options(<<"id">>, del, "concat", "unique") : del \in {"", "_delete"}},
          {NoMeta}, SeqsOf(StripDocs, MaxDocs))

SpecStrip == InitStrip /\ [][Next]_vars

(* SpecTyped: a typed merger for an object with a field a and a list items *)
(* whose items declare the composite key (region, name); the key fields    *)
(* are collected in either order                                           *)
FieldMeta(pks) == Meta(pks, "", "", << >>)

ItemsMeta(pks) ==
    Meta(pks, "", "",
         [region |-> FieldMeta(<<"region">>), name |-> FieldMeta(<<"name">>), b |-> FieldMeta(<< >>)])

RootMeta(pks) ==
    Meta(<< >>, "", "", [a |-> Meta(<< >>, "", "", [b |-> FieldMeta(<< >>)]), items |-> ItemsMeta(pks)])

TypedItems ==
    { Map([region |-> StrV(<<"us">>), name |-> StrV(<<"api">>), b |-> IntV("1")]),
      Map([region |-> StrV(<<"us">>), name |-> StrV(<<"web">>)]),
      Map([region |-> StrV(<<"us">>), b |-> IntV("2")]),
      Map([region |-> StrV(<<"us">>), name |-> Nil, b |-> IntV("2")]) }

TypedDocs ==
    {Map([items |-> l]) : l \in Lists(TypedItems)}
    \cup {Map([items |-> l, a |-> Map([_delete |-> True])]) : l \in Lists(TypedItems)}

InitTyped ==
    Start({Options(pk, "_delete", "concat", "unique") : pk \in {<< >>, <<"region">>}},
          {RootMeta(<<"region", "name">>), RootMeta(<<"name", "region">>)},
          OneOrTwo(TypedDocs))

SpecTyped == InitTyped /\ [][Next]_vars

----------------------------------------------------------------------------
(* The vocabulary of the properties: the last fold step merged the list base with  *)
(* the list Overlay by key.                                                *)

Cfg == Merger(mindex, FieldSeq)

(* the key of an item of a list at the document root *)
KeyAt(item) == getPrimaryKey(Cfg, << >>, item)

(* the last fold step returned no error; the document it merged *)
Stepped == n >= 1 /\ err = NoErr
Overlay == docs[n]

(* the last fold step returned an error; the document of the last fold     *)
(* step, failed or not                                                     *)
Failed == pc = "done" /\ err # NoErr
LastOverlay == IF Failed THEN docs[n + 1] ELSE docs[n]

KeyedLists(b, o) == IsList(b) /\ IsList(o) /\ Len(o[2]) > 0 /\ hasKeys(Cfg, o[2], << >>)
KeyedStep == Stepped /\ KeyedLists(base, Overlay)

B == base[2]
O == Overlay[2]
R == result[2]

Requests(o) == {j \in 1..Len(o) : isMarkedForDeletion(Cfg, o[j])}
Unique == opts.ObjectListMode = "unique"
Consolidate == opts.ObjectListMode = "consolidate"

(* fields of both, the overlay's value for a field of both: for items      *)
(* whose fields hold scalars                                               *)
Union(x, y) ==
    Map([f \in Fields(x) \cup Fields(y) |->
            IF f \in Fields(x) /\ (f \notin Fields(y) \/ IsNil(Get(y, f)))
            THEN Get(x, f) ELSE Get(y, f)])

WithKey(s, k) == {j \in 1..Len(s) : KeyAt(s[j]) = k}

(* C1: a keyed list merge in unique mode without deletion requests leaves, *)
(* for every key on a base item and on an overlay item, exactly one item   *)
(* with that key, and it has the fields of both, the overlay's value where *)
(* both have the field.                                                    *)
C1_KeyedMatch ==
    (KeyedStep /\ Unique /\ Requests(O) = {}) =>
        \A bi \in 1..Len(B) : \A oj \in 1..Len(O) :
            (KeyAt(B[bi]) # NoKey /\ KeyAt(B[bi]) = KeyAt(O[oj])) =>
                /\ Cardinality(WithKey(R, KeyAt(B[bi]))) = 1
                /\ \A k \in WithKey(R, KeyAt(B[bi])) : R[k] = Union(B[bi], O[oj])

C1_Witness ==
    /\ KeyedStep /\ Unique /\ Requests(O) = {}
    /\ \E bi \in 1..Len(B) : \E oj \in 1..Len(O) :
          /\ KeyAt(B[bi]) # NoKey /\ KeyAt(B[bi]) = KeyAt(O[oj])
          /\ Fields(O[oj]) \ Fields(B[bi]) # {}
          /\ \E f \in Fields(B[bi]) \cap Fields(O[oj]) : Get(B[bi], f) # Get(O[oj], f)
    /\ Len(R) = 2

(* where a result item came from: the base item or the overlay item that *)
(* introduced it has its key, and is it when it has none                   *)
From(k) == IF origin[k][1] = "b" THEN B[origin[k][2] + 1] ELSE O[origin[k][2] + 1]

(* C2: the result of a keyed list merge is base items in their original    *)
(* relative order followed by appended overlay items in overlay order; an  *)
(* overlay item that matches a base item leaves it where it was.           *)
C2_Order ==
    KeyedStep =>
        /\ Len(origin) = Len(R)
        /\ \A k \in 1..Len(R) :
              /\ KeyAt(R[k]) = KeyAt(From(k))
              /\ KeyAt(R[k]) = NoKey => R[k] = From(k)
              /\ origin[k][1] = "o" => WithKey(B, KeyAt(R[k])) = {} \/ KeyAt(R[k]) = NoKey
                                          \/ Requests(O) # {}
        /\ \A k \in 1..Len(R) : \A l \in 1..Len(R) :
              k < l =>
                  /\ ~(origin[k][1] = "o" /\ origin[l][1] = "b")
                  /\ origin[k][1] = origin[l][1] => origin[k][2] < origin[l][2]
        /\ (Unique /\ ~Filtering(Cfg, "unique")) =>
              /\ Len(R) >= Len(B)
              /\ \A bi \in 1..Len(B) : origin[bi] = <<"b", bi - 1>>

C2_Witness ==
    /\ KeyedStep
    /\ origin = <<<<"b", 0>>, <<"b", 1>>, <<"o", 1>>>>
    /\ R[2] # B[2]

(* two items of the list d, neither a deletion request, have the same key *)
Duplicates(d) ==
    {pq \in (1..Len(d[2])) \X (1..Len(d[2])) :
        /\ pq[1] < pq[2]
        /\ KeyAt(d[2][pq[1]]) # NoKey
        /\ KeyAt(d[2][pq[1]]) = KeyAt(d[2][pq[2]])
        /\ ~isMarkedForDeletion(Cfg, d[2][pq[1]])
        /\ ~isMarkedForDeletion(Cfg, d[2][pq[2]])}

(* an item of the list d has an object or a list for its key *)
NonComparable(d) ==
    {x \in 1..Len(d[2]) : KeyAt(d[2][x]) # NoKey /\ ~isKeyComparable(KeyAt(d[2][x]))}

Documents == {docs[x] : x \in 1..Len(docs)}

(* C3: in unique mode a call with a document that holds a list with two    *)
(* items of equal key, neither marked for deletion, returns a              *)
(* DuplicatePrimaryKeyError with the positions of two such items, and no   *)
(* result.                                                                 *)
C3_UniqueErrors ==
    (/\ pc = "done" /\ Unique
     /\ \E d \in Documents : IsList(d) /\ Duplicates(d) # {}
     /\ \A d \in Documents : IsList(d) => NonComparable(d) = {}) =>
        /\ err[1] = "dup"
        /\ out = Nil
        /\ \E d \in Documents : \E pq \in Duplicates(d) : err[3] = <<pq[1] - 1, pq[2] - 1>>

(* C4: a call with a document that holds a list item whose key is an       *)
(* object or a list returns a NonComparablePrimaryKeyError, in both modes, *)
(* with or without a deletion marker on the item, also when the document   *)
(* is the only one.                                                        *)
C4_NonComparableErrors ==
    (pc = "done" /\ \E d \in Documents : IsList(d) /\ NonComparable(d) # {}) =>
        err[1] = "noncomp" /\ out = Nil

RECURSIVE FoldUnion(_, _, _)
(* the items of s at the places of ks folded left to right with Union *)
FoldUnion(s, ks, acc) ==
    IF ks = {} THEN acc
    ELSE LET k == CHOOSE x \in ks : \A y \in ks : x <= y
         IN FoldUnion(s, ks \ {k}, IF acc = Nil THEN s[k] ELSE Union(acc, s[k]))

FirstOf(ks) == CHOOSE x \in ks : \A y \in ks : x <= y

C6_DeleteExactly ==
    (/\ n >= 1 \/ Failed
     /\ KeyedLists(base, LastOverlay)
     /\ Requests(LastOverlay[2]) = 1..Len(LastOverlay[2])
     /\ Unique
     /\ \A k \in {KeyAt(B[x]) : x \in 1..Len(B)} \ {NoKey} : Cardinality(WithKey(B, k)) = 1) =>
        /\ err = NoErr
        /\ result =
              List(SelectSeq(B, LAMBDA v :
                      KeyAt(v) = NoKey
                      \/ KeyAt(v) \notin {KeyAt(LastOverlay[2][j]) : j \in 1..Len(LastOverlay[2])}))

(* v is an object whose marker field is the boolean true *)
TrueMarked(v) ==
    IsMap(v) /\ Has(v, opts.DeleteMarkerKey) /\ Get(v, opts.DeleteMarkerKey) = True

RECURSIVE MarkedPaths(_), HasPath(_, _)
(* the paths of field names of v that lead to a field whose value is an    *)
(* object with marker = true                                               *)
MarkedPaths(v) ==
    IF ~IsMap(v) THEN {}
    ELSE UNION {IF TrueMarked(Get(v, f)) THEN {<<f>>}
                ELSE {<<f>> \o q : q \in MarkedPaths(Get(v, f))} : f \in Fields(v)}

HasPath(v, p) ==
    IF p = << >> THEN TRUE
    ELSE IsMap(v) /\ Has(v, Head(p)) /\ HasPath(Get(v, Head(p)), Tail(p))

(* C7: after a merge of a base object and an overlay object with the       *)
(* marker configured, no field of the overlay, at any depth, whose value   *)
(* is an object with marker = true is in the result at its path.           *)
C7_FieldsDeleted ==
    (/\ pc = "done" /\ err = NoErr /\ opts.DeleteMarkerKey # ""
     /\ Len(docs) = 2 /\ IsMap(docs[1]) /\ IsMap(docs[2])) =>
        \A p \in MarkedPaths(docs[2]) : ~HasPath(out, p)

(* C8: only an object whose marker is the boolean true is a deletion       *)
(* request.  An overlay list item whose marker is false, a string, a       *)
(* number or absent is merged into its key match like any item, an overlay *)
(* object field with such a value is merged like any value, and no base    *)
(* item and no base field is removed.                                      *)
C8_OnlyTrue ==
    /\ (Stepped /\ IsList(Overlay)) =>
          \A j \in 1..Len(O) : isMarkedForDeletion(Cfg, O[j]) <=> TrueMarked(O[j])
    /\ (KeyedStep /\ \A j \in 1..Len(O) : ~TrueMarked(O[j])) =>
          \A x \in 1..Len(B \o O) :
              KeyAt((B \o O)[x]) # NoKey =>
                  /\ Cardinality(WithKey(R, KeyAt((B \o O)[x]))) = 1
                  /\ \A k \in WithKey(R, KeyAt((B \o O)[x])) :
                        R[k] = FoldUnion(B \o O, WithKey(B \o O, KeyAt((B \o O)[x])), Nil)
    /\ (Stepped /\ IsMap(base) /\ IsMap(Overlay)) =>
          /\ \A f \in Fields(Overlay) :
                isMarkedForDeletion(Cfg, Get(Overlay, f)) <=> TrueMarked(Get(Overlay, f))
          /\ \A f \in Fields(Overlay) :
                (IsMap(Get(Overlay, f)) /\ ~TrueMarked(Get(Overlay, f))
                 /\ \A g \in Fields(Get(Overlay, f)) : IsScalar(Get(Get(Overlay, f), g))) =>
                    /\ Has(result, f)
                    /\ Get(result, f) =
                          IF Has(base, f) /\ IsMap(Get(base, f))
                          THEN Union(Get(base, f), Get(Overlay, f))
                          ELSE Get(Overlay, f)
          /\ \A g \in Fields(base) :
                (~Has(Overlay, g) \/ ~TrueMarked(Get(Overlay, g))) => Has(result, g)

C8_Witness ==
    /\ KeyedStep /\ Unique /\ Len(B) = 1 /\ Len(O) = 1 /\ Len(R) = 1
    /\ Has(O[1], "_delete") /\ Get(O[1], "_delete") = StrV(<<"true">>)
    /\ Has(R[1], "a") /\ Has(R[1], "b") /\ Get(R[1], "_delete") = StrV(<<"true">>)

RECURSIVE HasMarker(_)
(* some object of v, at any depth, has the marker field *)
HasMarker(v) ==
    IF IsMap(v)
    THEN Has(v, opts.DeleteMarkerKey) \/ \E f \in Fields(v) : HasMarker(Get(v, f))
    ELSE IF IsList(v) THEN \E k \in 1..Len(v[2]) : HasMarker(v[2][k])
    ELSE FALSE

(* C9: with a marker configured, what a successful merge returns has no    *)
(* object with the marker field at any depth, whatever the marker's value  *)
(* and whichever document brought it.                                      *)
C9_Stripped ==
    (pc = "done" /\ err = NoErr /\ opts.DeleteMarkerKey # "") => ~HasMarker(out)

C9_Witness ==
    /\ pc = "done" /\ err = NoErr /\ opts.DeleteMarkerKey # ""
    /\ Len(docs) = 3
    /\ \A x \in 1..3 : HasMarker(docs[x])
    /\ HasMarker(result)
    /\ IsMap(out) /\ Has(out, "items") /\ Has(out, "a") /\ Has(out, "name")

(* the key fields declared for the items of the list items *)
Declared == primaryKeys(children(metadata)["items"])

Incomplete(item) ==
    IsMap(item) /\ \E x \in 1..Len(Declared) : ~Has(item, Declared[x]) \/ IsNil(Get(item, Declared[x]))

SameKey(x, y) ==
    ~Incomplete(x) /\ ~Incomplete(y) /\ \A k \in 1..Len(Declared) : Get(x, Declared[k]) = Get(y, Declared[k])

(* C10: with a composite key declared for a list, an overlay item that     *)
(* lacks a declared key field, or has null in it, is appended as it is,    *)
(* and a base item that no overlay item matches in every key field stays   *)
(* as it was.                                                              *)
C10_IncompleteAppended ==
    (/\ Stepped /\ HasMeta(metadata) /\ Len(Declared) > 1
     /\ IsMap(base) /\ Has(base, "items") /\ IsMap(Overlay) /\ Has(Overlay, "items")
     /\ Len(Get(Overlay, "items")[2]) > 0) =>
        LET bs == Get(base, "items")[2]
            os == Get(Overlay, "items")[2]
            rs == Get(result, "items")[2]
        IN /\ \A j \in 1..Len(os) :
                 Incomplete(os[j]) => \E k \in (Len(bs) + 1)..Len(rs) : rs[k] = os[j]
           /\ \A x \in 1..Len(bs) :
                 (\A j \in 1..Len(os) : ~SameKey(bs[x], os[j])) => rs[x] = bs[x]

----------------------------------------------------------------------------
(* SpecComposite: the typed merger of SpecTyped on items whose key fields  *)
(* hold strings of one or two words                                        *)
CompositeItems ==
    { Map([region |-> StrV(<<"us", "east">>), name |-> StrV(<<"api">>), b |-> IntV("1")]),
      Map([region |-> StrV(<<"us">>), name |-> StrV(<<"east", "api">>), b |-> IntV("2")]),
      Map([region |-> StrV(<<"us">>), name |-> StrV(<<"api">>), b |-> IntV("1")]),
      Map([region |-> StrV(<<"us", "east">>), name |-> StrV(<<"api">>), a |-> IntV("2")]) }

InitComposite ==
    Start({Options(<< >>, "", "concat", omode) : omode \in {"unique", "consolidate"}},
          {RootMeta(<<"region", "name">>), RootMeta(<<"name", "region">>)},
          OneOrTwo({Map([items |-> l]) : l \in Lists(CompositeItems)}))

SpecComposite == InitComposite /\ [][Next]_vars

(* the lists items of two objects are merged by the declared composite key *)
CompositeLists(b, o) ==
    /\ HasMeta(metadata) /\ Len(Declared) > 1
    /\ IsMap(b) /\ Has(b, "items") /\ IsMap(o) /\ Has(o, "items")
    /\ Len(Get(o, "items")[2]) > 0

(* two items of the list s have every declared key field equal *)
SamePairs(s) ==
    {pq \in (1..Len(s)) \X (1..Len(s)) : pq[1] < pq[2] /\ SameKey(s[pq[1]], s[pq[2]])}

(* C11: with a composite key two list items are the same entity exactly    *)
(* when every declared key field of one equals that field of the other: a  *)
(* base item that differs from every overlay item in some key field is     *)
(* not changed by the merge, a base item and an overlay item equal in      *)
(* every key field leave one item, and a duplicate is reported only for a  *)
(* list with two items equal in every key field.                           *)
C11_CompositeMatch ==
    /\ (Stepped /\ Unique /\ CompositeLists(base, Overlay)) =>
          LET bs == Get(base, "items")[2]
              os == Get(Overlay, "items")[2]
              rs == Get(result, "items")[2]
          IN /\ \A x \in 1..Len(bs) :
                   (\A j \in 1..Len(os) : ~SameKey(bs[x], os[j])) => rs[x] = bs[x]
             /\ \A x \in 1..Len(bs) : \A j \in 1..Len(os) :
                   SameKey(bs[x], os[j]) => \A k \in 1..Len(rs) : k # x => ~SameKey(rs[k], os[j])
    /\ (Failed /\ err[1] = "dup" /\ CompositeLists(base, LastOverlay)) =>
          \/ SamePairs(Get(base, "items")[2]) # {}
          \/ SamePairs(Get(LastOverlay, "items")[2]) # {}

----------------------------------------------------------------------------
(* SpecScalar: root lists of scalars, objects and lists, merged under      *)
(* every scalar list mode and both object list modes                       *)
ScalarItems ==
    { IntV("1"), StrV(<<"x">>), Map([a |-> IntV("1")]), List(<<IntV("1")>>), Map([id |-> IntV("1")]) }

InitScalar ==
    Start({Options(<<"id">>, "", smode, omode) :
              smode \in {"concat", "dedup", "replace"}, omode \in {"unique", "consolidate"}},
          {NoMeta}, OneOrTwo(Lists(ScalarItems)))

SpecScalar == InitScalar /\ [][Next]_vars

(* the last fold step merged the list base with a non-empty list Overlay   *)
(* none of whose items has a key                                           *)
KeylessStep ==
    Stepped /\ IsList(base) /\ IsList(Overlay) /\ Len(O) > 0 /\ ~hasKeys(Cfg, O, << >>)

(* C12: a keyless list merge with a non-empty overlay gives, under concat, *)
(* the base items followed by the overlay items; under dedup, of that      *)
(* concatenation every object, every list and the first occurrence of      *)
(* every scalar, in the order of the concatenation; under replace, the     *)
(* overlay list.                                                           *)
C12_ScalarModes ==
    KeylessStep =>
        LET cat == B \o O
            keep == {k \in 1..Len(cat) :
                        IsMap(cat[k]) \/ IsList(cat[k]) \/ \A j \in 1..(k - 1) : cat[j] # cat[k]}
        IN /\ opts.ScalarListMode = "concat" => R = cat
           /\ opts.ScalarListMode = "replace" => R = O
           /\ opts.ScalarListMode = "dedup" =>
                 /\ Len(R) = Cardinality(keep)
                 /\ \A k \in keep : R[Cardinality({j \in keep : j <= k})] = cat[k]

C12_Witness ==
    /\ KeylessStep /\ opts.ScalarListMode = "dedup"
    /\ Len(B) = 2 /\ Len(O) = 2 /\ Len(R) = 3
    /\ IsMap(R[2]) /\ R[3] = R[2] /\ IsScalar(R[1])

(* C13: a fold step that merges a list with the empty list returns no      *)
(* error and the base list as it was, whatever the scalar list mode and    *)
(* the object list mode.                                                   *)
C13_EmptyOverlay ==
    ((n >= 1 \/ Failed) /\ IsList(base) /\ LastOverlay = List(<< >>)) =>
        err = NoErr /\ result = base

C13_Witness ==
    /\ Stepped /\ n = 2 /\ Overlay = List(<< >>)
    /\ IsList(base) /\ Len(B) = 2 /\ B[1] = B[2] /\ KeyAt(B[1]) # NoKey
    /\ opts.ScalarListMode = "replace"
    /\ result = base

----------------------------------------------------------------------------
(* SpecMaps: documents of every shape: null, a scalar, a list, and objects *)
(* whose fields hold null, a scalar, a list or an object of scalars        *)
MapValues ==
    { Nil, IntV("1"), List(<<IntV("1")>>), Map([b |-> IntV("1")]),
      Map([b |-> Nil, a |-> IntV("2")]), Map([_delete |-> True]) }

MapDocs ==
    MapValues \cup {IntV("2")} \cup
    {Map(f) : f \in {g \in UNION {[S -> MapValues] : S \in SUBSET {"a", "b", "name"}} :
                        "name" \in DOMAIN g => g["name"] = IntV("1")}}

InitMaps ==
    Start({Options(<<"id">>, del, "concat", "unique") : del \in {"", "_delete"}},
          {NoMeta}, OneOrTwo(MapDocs))

SpecMaps == InitMaps /\ [][Next]_vars

(* the value-merge of two values that are null, scalars, lists of scalars  *)
(* or objects of scalars                                                   *)
ValueUnion(x, y) ==
    IF IsNil(y) THEN x
    ELSE IF IsNil(x) THEN y
    ELSE IF IsMap(x) /\ IsMap(y) THEN Union(x, y)
    ELSE IF IsList(x) /\ IsList(y) THEN List(x[2] \o y[2])
    ELSE y

(* C14: a merge of two objects in which no overlay field is marked for     *)
(* deletion gives an object with the fields of both: the base's value for  *)
(* a field of the base alone, the overlay's value for a field of the       *)
(* overlay alone, and the value-merge of the two values for a field of     *)
(* both.                                                                   *)
C14_MapUnion ==
    (/\ Stepped /\ IsMap(base) /\ IsMap(Overlay)
     /\ \A k \in Fields(Overlay) : ~isMarkedForDeletion(Cfg, Get(Overlay, k))) =>
        /\ IsMap(result)
        /\ Fields(result) = Fields(base) \cup Fields(Overlay)
        /\ \A k \in Fields(result) :
              Get(result, k) = IF k \notin Fields(Overlay) THEN Get(base, k)
                               ELSE IF k \notin Fields(base) THEN Get(Overlay, k)
                               ELSE ValueUnion(Get(base, k), Get(Overlay, k))

C14_Witness ==
    /\ Stepped /\ IsMap(base) /\ IsMap(Overlay)
    /\ Fields(base) = {"a", "name"} /\ Fields(Overlay) = {"a", "b"}
    /\ Get(base, "a") = Map([b |-> IntV("1")])
    /\ Get(Overlay, "a") = Map([b |-> Nil, a |-> IntV("2")])
    /\ result = Map([a |-> Map([b |-> IntV("1"), a |-> IntV("2")]),
                     b |-> Get(Overlay, "b"), name |-> IntV("1")])

(* C15: a fold step whose base and overlay are not null, not both objects  *)
(* and not both lists gives exactly the overlay; so does the merge of two  *)
(* such values of a field of both, when the overlay's is not marked for    *)
(* deletion.                                                               *)
C15_Dispatch ==
    LET Mismatch(x, y) ==
            /\ ~IsNil(x) /\ ~IsNil(y)
            /\ ~(IsMap(x) /\ IsMap(y)) /\ ~(IsList(x) /\ IsList(y))
    IN /\ (Stepped /\ Mismatch(base, Overlay)) => result = Overlay
       /\ (Stepped /\ IsMap(base) /\ IsMap(Overlay)) =>
             \A k \in Fields(base) \cap Fields(Overlay) :
                 (Mismatch(Get(base, k), Get(Overlay, k))
                  /\ ~isMarkedForDeletion(Cfg, Get(Overlay, k))) =>
                     Get(result, k) = Get(Overlay, k)

C15_Witness ==
    /\ Stepped /\ n = 2
    /\ IsMap(base) /\ Fields(base) = {"a", "b"} /\ IsList(Overlay) /\ result = Overlay
    /\ docs[1] = base

(* the document x without the marker field in x and in the objects its     *)
(* fields hold: for the documents of SpecMaps                              *)
Unmarked(x) ==
    LET Top(v) == IF IsMap(v) THEN Map([k \in Fields(v) \ {opts.DeleteMarkerKey} |-> Get(v, k)])
                  ELSE v
    IN IF IsMap(x) THEN Map([k \in Fields(x) \ {opts.DeleteMarkerKey} |-> Top(Get(x, k))])
       ELSE x

(* C16: a call with a document x and null, in either order, returns no     *)
(* error and x without its marker fields: x itself when no marker is       *)
(* configured or x has no field of that name.                              *)
C16_Identity ==
    \A x \in 1..2 :
        (pc = "done" /\ Len(docs) = 2 /\ IsNil(docs[3 - x])) =>
            /\ err = NoErr
            /\ out = Unmarked(docs[x])
            /\ ~HasMarker(docs[x]) => out = docs[x]

C16_Witness ==
    /\ pc = "done" /\ Len(docs) = 2 /\ IsNil(docs[1])
    /\ opts.DeleteMarkerKey = "_delete"
    /\ docs[2] = Map([a |-> Map([_delete |-> True]), b |-> IntV("1")])
    /\ out = Map([a |-> Map(<< >>), b |-> IntV("1")])

(* C16 as the specification states it: a call with x and null, in either   *)
(* order, returns no error and a value equal to x.                         *)
C16_Original ==
    \A x \in 1..2 :
        (pc = "done" /\ Len(docs) = 2 /\ IsNil(docs[3 - x])) =>
            err = NoErr /\ out = docs[x]

----------------------------------------------------------------------------
(* SpecSelf: a call that passes the same document twice, a list or an      *)
(* object that holds one, under every mode, with and without a marker      *)
SelfItems ==
    { IntV("1"), StrV(<<"x">>), Nil, Map([a |-> IntV("1")]),
      Map([id |-> IntV("1"), a |-> IntV("1")]), Map([id |-> IntV("2")]),
      Map([id |-> IntV("1"), _delete |-> True]), Map([id |-> Map([a |-> IntV("1")])]) }

InitSelf ==
    Start({Options(<<"id">>, del, smode, omode) :
              del \in {"", "_delete"}, smode \in {"concat", "dedup", "replace"},
              omode \in {"unique", "consolidate"}},
          {NoMeta},
          {<<x, x>> : x \in Lists(SelfItems) \cup {Map([items |-> l]) : l \in Lists(SelfItems)}})

SpecSelf == InitSelf /\ [][Next]_vars

(* the list of a document of SpecSelf *)
ListOf(x) == IF IsList(x) THEN x[2] ELSE Get(x, "items")[2]

----------------------------------------------------------------------------
(* MergeUnstructured as a function of the documents of one call, from the  *)
(* result r of the loop over ds[1..i-1]                                    *)
RECURSIVE FoldDocs(_, _, _)
FoldDocs(ds, i, r) ==
    IF r.err # NoErr THEN Fail(r.err, r.path)
    ELSE IF i > Len(ds) THEN Res(stripDeleteMarker(Merger(Len(ds) - 1, FieldSeq), r.val), r.path)
    ELSE FoldDocs(ds, i + 1, mergeValues(Merger(i - 1, FieldSeq), r.val, ds[i], << >>))

MergeUnstructured(ds) == FoldDocs(ds, 1, Res(Nil, << >>))

(* SpecAssoc: calls with three documents, null or lists of items with the  *)
(* same key whose field a holds an object, marked for deletion or not      *)
AssocItems ==
    { Map([id |-> IntV("1"), a |-> Map([b |-> IntV("1")])]),
      Map([id |-> IntV("1"), a |-> Map([_delete |-> True])]),
      Map([id |-> IntV("2")]) }

InitAssoc ==
    Start({Options(<<"id">>, del, "concat", omode) :
              del \in {"", "_delete"}, omode \in {"unique", "consolidate"}},
          {NoMeta}, [1..3 -> {Nil} \cup Lists(AssocItems)])

SpecAssoc == InitAssoc /\ [][Next]_vars

(* the call merge(merge(a, b), c) for the call's documents a, b, c *)
Nested(r) ==
    IF r.err # NoErr THEN r ELSE MergeUnstructured(<<r.val, docs[3]>>)

(* C18: a call with three documents a, b, c ends as the call with the      *)
(* result of merge(a, b) and c does: both return an error, or both return  *)
(* the same value.                                                         *)
C18_Associative ==
    (pc = "done" /\ Len(docs) = 3) =>
        /\ (err # NoErr) <=> (Nested(MergeUnstructured(<<docs[1], docs[2]>>)).err # NoErr)
        /\ err = NoErr => out = Nested(MergeUnstructured(<<docs[1], docs[2]>>)).val

(* C19: a merge call ends by returning a result or an error value: it      *)
(* never panics.                                                           *)
C19_NeverPanics == ~IsPanic(err)

(* C20: the Path of a duplicate-key or non-comparable-key error is the     *)
(* field names and list positions from the document root to the offending  *)
(* item: for an item of the list in the field items of the root object,    *)
(* the name items and the item's position.                                 *)
C20_ErrorPath ==
    (/\ Failed /\ err[1] \in {"dup", "noncomp"}
     /\ IsMap(LastOverlay) /\ Has(LastOverlay, "items")) =>
        err[4] = <<"items", Itoa(err[3][Len(err[3])])>>

----------------------------------------------------------------------------
(* UntypedMerger.Merge, the byte-oriented wrapper.  A byte document is     *)
(* <<"bytes", v>>, which the supplied unmarshal function parses to v, or   *)
(* <<"bad">>, on which it fails; the supplied marshal function may fail on *)
(* any value.  A codec's own error is <<"codec", function>>.               *)
MarshalError(e, docIndex) == <<"marshal", e, docIndex>>

unmarshal(doc) ==
    IF doc[1] = "bytes" THEN Res(doc[2], << >>) ELSE Fail(<<"codec", "unmarshal">>, << >>)

(* return m.marshal(result), or the error of MergeUnstructured *)
Marshalled(r) ==
    IF r.err # NoErr
    THEN err' = r.err /\ out' = Nil
    ELSE \E e \in {NoErr, <<"codec", "marshal">>} :
            /\ err' = e
            /\ out' = IF e = NoErr THEN <<"bytes", r.val>> ELSE Nil

Merge ==
    /\ pc = "loop"
    /\ pc' = "done"
    /\ IF Len(docs) = 0
       THEN err' = NoErr /\ out' = <<"bytes">>
       ELSE IF \E i \in 1..Len(docs) : unmarshal(docs[i]).err # NoErr
            THEN LET i == CHOOSE i \in 1..Len(docs) :
                              /\ unmarshal(docs[i]).err # NoErr
                              /\ \A j \in 1..(i - 1) : unmarshal(docs[j]).err = NoErr
                 IN err' = MarshalError(unmarshal(docs[i]).err, i - 1) /\ out' = Nil
            ELSE Marshalled(MergeUnstructured([i \in 1..Len(docs) |-> unmarshal(docs[i]).val]))
    /\ UNCHANGED <<opts, metadata, mpath, mindex, docs, n, result, base, origin, other>>

(* SpecBytes: calls of Merge with up to MaxDocs byte documents *)
ByteDocs ==
    { <<"bad">>, <<"bytes", Map([name |-> IntV("1")])>>,
      <<"bytes", List(<<Map([id |-> IntV("1")])>>)>>,
      <<"bytes", List(<<Map([id |-> IntV("1")]), Map([id |-> IntV("1")])>>)>> }

InitBytes ==
    Start({Options(<<"id">>, "_delete", "concat", omode) : omode \in {"unique", "consolidate"}},
          {NoMeta}, {<< >>} \cup SeqsOf(ByteDocs, MaxDocs))

SpecBytes == InitBytes /\ [][Merge]_vars

(* C21: every failure of the supplied unmarshal function and every failure *)
(* of the supplied marshal function comes back from Merge as a             *)
(* MarshalError that wraps the codec's error and carries the index of the  *)
(* offending document: the first document unmarshal fails on.              *)
C21_CodecErrorsWrapped ==
    pc = "done" =>
        /\ err[1] # "codec"
        /\ (\E i \in 1..Len(docs) : docs[i] = <<"bad">>) =>
              /\ err[1] = "marshal" /\ err[2] = <<"codec", "unmarshal">>
              /\ docs[err[3] + 1] = <<"bad">>
              /\ \A j \in 1..err[3] : docs[j] # <<"bad">>

----------------------------------------------------------------------------
(* Two MergeUnstructured calls.  The call of the variables docs, pc, n,    *)
(* result, err, out runs on the merger of mpath and mindex; the call of    *)
(* other runs, by other.mode, on a merger of its own ("separate"), on the  *)
(* same merger at the same time ("shared"), or on the same merger after    *)
(* the first call returned ("after").  A loop iteration is two steps:      *)
(* reset(i), and the mergeValues call that reads m.path and m.index.       *)

(* m.reset(i) *)
Reset ==
    /\ pc = "loop"
    /\ n < Len(docs)
    /\ pc' = "merge"
    /\ mpath' = << >>
    /\ mindex' = n
    /\ UNCHANGED <<opts, metadata, docs, n, result, err, out, base, origin, other>>

(* result, err = m.mergeValues(result, doc); if err != nil return nil, err *)
MergeDoc ==
    /\ pc = "merge"
    /\ base' = result
    /\ \E ord \in Orders : Folded(mergeValues(Merger(mindex, ord), result, docs[n + 1], mpath))
    /\ UNCHANGED <<opts, metadata, mindex, docs, out, other>>

(* the second call may take a step *)
OtherRuns == other.mode = "after" => pc = "done"

(* variant of OtherReset that resets m.index and leaves m.path as it is *)
OtherReset_KeepPath ==
    /\ OtherRuns
    /\ other.pc = "loop"
    /\ other.n < Len(other.docs)
    /\ other' = [other EXCEPT !.pc = "merge", !.index = other.n]
    /\ mindex' = IF other.mode = "separate" THEN mindex ELSE other.n
    /\ UNCHANGED <<opts, metadata, mpath, docs, pc, n, result, err, out, base, origin>>

(* variant of OtherReset that resets the first call's merger in every mode *)
OtherReset_SameMerger ==
    /\ OtherRuns
    /\ other.pc = "loop"
    /\ other.n < Len(other.docs)
    /\ other' = [other EXCEPT !.pc = "merge", !.path = << >>, !.index = other.n]
    /\ mpath' = << >>
    /\ mindex' = other.n
    /\ UNCHANGED <<opts, metadata, docs, pc, n, result, err, out, base, origin>>

(* m.reset(i) of the second call *)
OtherReset ==
    /\ OtherRuns
    /\ other.pc = "loop"
    /\ other.n < Len(other.docs)
    /\ other' = [other EXCEPT !.pc = "merge", !.path = << >>, !.index = other.n]
    /\ mpath' = IF other.mode = "separate" THEN mpath ELSE << >>
    /\ mindex' = IF other.mode = "separate" THEN mindex ELSE other.n
    /\ UNCHANGED <<opts, metadata, docs, pc, n, result, err, out, base, origin>>

(* the loop body of the second call after mergeValues returned r *)
OtherFolded(r) ==
    /\ other' = [other EXCEPT !.pc = IF r.err # NoErr THEN "done" ELSE "loop",
                              !.err = r.err,
                              !.result = IF r.err # NoErr THEN Nil ELSE r.val,
                              !.n = IF r.err # NoErr THEN @ ELSE @ + 1,
                              !.path = IF other.mode = "separate" THEN r.path ELSE @]
    /\ mpath' = IF other.mode = "separate" THEN mpath ELSE r.path

(* mergeValues of the second call, on the path and index of its merger *)
OtherMergeDoc ==
    /\ OtherRuns
    /\ other.pc = "merge"
    /\ \E ord \in Orders :
          OtherFolded(mergeValues([opts |-> opts, metadata |-> metadata, order |-> ord,
                                   index |-> IF other.mode = "separate" THEN other.index ELSE mindex],
                                  other.result, other.docs[other.n + 1],
                                  IF other.mode = "separate" THEN other.path ELSE mpath))
    /\ UNCHANGED <<opts, metadata, mindex, docs, pc, n, result, err, out, base, origin>>

(* result = stripDeleteMarker(result); return result, nil of the second call *)
OtherReturn ==
    /\ OtherRuns
    /\ other.pc = "loop"
    /\ other.n = Len(other.docs)
    /\ other' = [other EXCEPT !.pc = "done",
                              !.out = stripDeleteMarker(Merger(0, FieldSeq), other.result)]
    /\ UNCHANGED <<opts, metadata, mpath, mindex, docs, pc, n, result, err, out, base, origin>>

NextRace == Reset \/ MergeDoc \/ Return \/ OtherReset \/ OtherMergeDoc \/ OtherReturn

(* SpecRace: two calls, each with two documents: objects one of which      *)
(* deletes a field, lists one of which repeats a key, at the root or in a  *)
(* field                                                                   *)
RaceDocs ==
    { <<Map([name |-> IntV("1")]), Map([a |-> Map([_delete |-> True])])>>,
      <<List(<<Map([id |-> IntV("1")])>>), List(<<Map([id |-> IntV("1")]), Map([id |-> IntV("1")])>>)>>,
      <<List(<<Map([id |-> IntV("1")])>>), List(<<Map([id |-> IntV("1"), a |-> IntV("1")])>>)>>,
      <<Map([items |-> List(<<Map([id |-> IntV("1")])>>)]),
        Map([items |-> List(<<Map([id |-> IntV("1")]), Map([id |-> IntV("1")])>>)])>> }

InitRace ==
    /\ opts = Options(<<"id">>, "_delete", "concat", "unique")
    /\ metadata = NoMeta
    /\ docs \in RaceDocs
    /\ mpath = << >> /\ mindex = 0 /\ pc = "loop" /\ n = 0
    /\ result = Nil /\ err = NoErr /\ out = Nil /\ base = Nil /\ origin = << >>
    /\ other \in [mode : {"separate", "shared", "after"}, docs : RaceDocs, pc : {"loop"}, n : {0},
                  result : {Nil}, err : {NoErr}, out : {Nil}, path : {<< >>}, index : {0}]

SpecRace == InitRace /\ [][NextRace]_vars

(* the call with documents ds that has returned e and v returned what a    *)
(* call on a fresh merger returns: r                                       *)
Alone(e, v, r) == r.err = e /\ (e = NoErr => r.val = v)

(* C22: two calls that run at the same time on one merger each of their    *)
(* own return what they return when run alone; on the same merger some     *)
(* interleaving gives a call another outcome (C22_Witness).                *)
C22_OneMergerPerCaller ==
    other.mode = "separate" =>
        /\ pc = "done" => Alone(err, out, MergeUnstructured(docs))
        /\ other.pc = "done" => Alone(other.err, other.out, MergeUnstructured(other.docs))

C22_Witness ==
    /\ other.mode = "shared"
    /\ pc = "done" /\ other.pc = "done"
    /\ err[1] = "dup" /\ err[5] = 0
    /\ MergeUnstructured(docs).err[5] = 1
    /\ Alone(other.err, other.out, MergeUnstructured(other.docs))

(* C23: a call on a merger that an earlier call has used and returned      *)
(* from, with a result or with an error, returns what the call returns on  *)
(* a fresh merger of the same configuration.                               *)
C23_Reusable ==
    other.mode = "after" =>
        /\ pc = "done" => Alone(err, out, MergeUnstructured(docs))
        /\ other.pc = "done" => Alone(other.err, other.out, MergeUnstructured(other.docs))

C23_Witness ==
    /\ other.mode = "after"
    /\ pc = "done" /\ err[1] = "dup" /\ err[4] = <<"items", "1">>
    /\ other.pc = "done" /\ other.err[1] = "dup" /\ other.err[4] = <<"1">> /\ other.err[5] = 1

(* C24: push and pop are balanced: the path is empty again after each      *)
(* document has been folded, whether the fold step returned a result or an *)
(* error.                                                                  *)
C24_Balanced == mpath = << >>

(* C25: the merge of two objects gives the same result value, or the same  *)
(* error with the same Path, in every order in which the overlay's entries *)
(* are visited.                                                            *)
C25_OrderIndependent ==
    LET Same(r1, r2) == r1.val = r2.val /\ r1.err = r2.err
    IN ((n >= 1 \/ Failed) /\ IsMap(base) /\ IsMap(LastOverlay)) =>
          Same(mergeValues(Merger(mindex, FieldSeq), base, LastOverlay, << >>),
               mergeValues(Merger(mindex, Reverse(FieldSeq)), base, LastOverlay, << >>))

(* C26: the DocIndex of a duplicate-key or non-comparable-key error is the *)
(* index of the document of the call that holds the offending items: the   *)
(* items at the error's positions are items of that document, with equal   *)
(* keys for a duplicate and an object or a list for key otherwise.         *)
C26_DocIndex ==
    (Failed /\ err[1] \in {"dup", "noncomp"}) =>
        LET d == docs[err[5] + 1]
            At(x) == d[2][err[3][x] + 1]
        IN /\ IsList(d)
           /\ \A x \in 1..Len(err[3]) : err[3][x] < Len(d[2])
           /\ err[1] = "noncomp" => ~isKeyComparable(KeyAt(At(1)))
           /\ err[1] = "dup" => KeyAt(At(1)) = KeyAt(At(2))

(* C27: a keyed list merge keeps every keyless item: a value without a key *)
(* is in the result as often as it is in the base and, not as a deletion   *)
(* request, in the overlay.                                                *)
C27_KeylessKept ==
    KeyedStep =>
        \A v \in {B[i] : i \in 1..Len(B)} \cup {O[j] : j \in 1..Len(O)} :
            KeyAt(v) = NoKey =>
                Cardinality({k \in 1..Len(R) : R[k] = v})
                    = Cardinality({i \in 1..Len(B) : B[i] = v})
                      + Cardinality({j \in 1..Len(O) : O[j] = v /\ ~isMarkedForDeletion(Cfg, O[j])})

----------------------------------------------------------------------------
(* SpecCandidates: root lists merged with two candidate key names, in      *)
(* either order; items have one of the fields, both, or null in one        *)
CandidateItems ==
    { Map([id |-> IntV("1"), name |-> IntV("2")]),
      Map([name |-> IntV("1"), a |-> IntV("1")]),
      Map([id |-> Nil, name |-> IntV("1")]),
      Map([id |-> IntV("2")]),
      Map([a |-> IntV("1")]) }

InitCandidates ==
    Start({Options(pk, "", "concat", omode) :
              pk \in {<<"id", "name">>, <<"name", "id">>}, omode \in {"unique", "consolidate"}},
          {NoMeta}, OneOrTwo(Lists(CandidateItems)))

SpecCandidates == InitCandidates /\ [][Next]_vars

(* the positions in PrimaryKeyNames of the names that are fields of item,  *)
(* and of those that are fields with a value other than null               *)
PresentNames(item) ==
    {x \in 1..Len(opts.PrimaryKeyNames) : Has(item, opts.PrimaryKeyNames[x])}
NonNullNames(item) ==
    {x \in PresentNames(item) : ~IsNil(Get(item, opts.PrimaryKeyNames[x]))}

C29_OneStrategy ==
    LET KeyField(item) ==
            IF NonNullNames(item) = {} THEN 0
            ELSE CHOOSE x \in NonNullNames(item) : \A y \in NonNullNames(item) : x <= y
    IN (KeyedStep /\ Unique) =>
          \A i \in 1..Len(B) :
              (\A j \in 1..Len(O) :
                  KeyField(O[j]) # KeyField(B[i]) \/ KeyAt(O[j]) # KeyAt(B[i])) =>
                      R[i] = B[i]

====
